---- MODULE Spec2Model ----
(***************************************************************************)
(* Model of GNN.py: the dataset split, the metric aggregator eval(), the   *)
(* inference pass compute_test() and the training driver under __main__.   *)
(*                                                                         *)
(* The network, the optimizer and the loss are external collaborators.     *)
(*   - model parameters are a version number that optimizer.step() bumps;  *)
(*   - the network's output for a sample is its class-1 probability p1,    *)
(*     one of 0, 1/2 and 1 (written 0, 1, 2), so that p0 = 1 - p1;         *)
(*   - the summed losses only feed print() and are not modelled;           *)
(*   - metric values are exact rationals <<num, den>> in lowest terms.     *)
(*   - the values eval returns only feed print(): printed keeps the kind   *)
(*     of each line, ret keeps the values of the latest call.              *)
(* Datasets are binary (classes 0 and 1, positive class 1).  An uncaught   *)
(* exception ends the run: pc = "failed".  Empty partitions (n < 10) are   *)
(* taken to build empty loaders, which yield no batch.                     *)
(***************************************************************************)
EXTENDS Integers, Sequences, FiniteSets

\* ---------------------------------------------------------------- bounds
MaxDataset == 10
MaxEpochs == 2
MaxBatchSize == 4
MaxRot == 1
MaxSamples == 4

VARIABLES
  n,               \* len(dataset)
  epochs,          \* args.epochs
  batch_size,      \* args.batch_size
  y,               \* sample -> label (data.y of the dataset)
  training_set,    \* the three Subsets returned by random_split,
  validation_set,  \*   as sequences of sample numbers
  test_set,
  pc,              \* position of the single thread of control
  epoch,           \* loop variable of line 120
  train_iter,      \* batches of train_loader for the current epoch
  i,               \* number of training batches consumed this epoch
  out_log,         \* out_log of __main__ (line 116); eval's argument
  loader,          \* the loader compute_test is running over
  ct_iter,         \* batches of that loader
  j,               \* number of its batches consumed
  ct_log,          \* out_log local to compute_test (line 98)
  training,        \* model.training
  grad_enabled,    \* torch.is_grad_enabled()
  params,          \* version of the model parameters
  ret,             \* value of the most recent call of eval
  printed          \* lines printed by __main__

vars == <<n, epochs, batch_size, y, training_set, validation_set, test_set,
          pc, epoch, train_iter, i, out_log, loader, ct_iter, j, ct_log,
          training, grad_enabled, params, ret, printed>>

\* ------------------------------------------------------------- rationals
RECURSIVE Gcd(_, _)
Gcd(a, b) == IF b = 0 THEN a ELSE Gcd(b, a % b)

Frac(a, b) == LET g == Gcd(a, b) IN <<a \div g, b \div g>>

Zero == <<0, 1>>
One == <<1, 1>>

RAdd(p, q) == Frac(p[1] * q[2] + q[1] * p[2], p[2] * q[2])

RDivInt(p, k) == Frac(p[1], p[2] * k)

RLeq(p, q) == p[1] * q[2] <= q[1] * p[2]

InUnit(p) == RLeq(Zero, p) /\ RLeq(p, One)

\* --------------------------------------------------------------- helpers
Min(a, b) == IF a < b THEN a ELSE b

Count(S) == Cardinality(S)

\* the batches a DataLoader yields: consecutive chunks, the last one smaller
DataLoader(order, bs) ==
  LET nb == (Len(order) + bs - 1) \div bs
  IN [b \in 1..nb |-> SubSeq(order, (b - 1) * bs + 1, Min(b * bs, Len(order)))]

Rotate(s, r) ==
  IF Len(s) = 0 THEN s
  ELSE [k \in 1..Len(s) |-> s[((k - 1 + r) % Len(s)) + 1]]

Reverse(s) == [k \in 1..Len(s) |-> s[Len(s) + 1 - k]]

\* orders torch.randperm may produce in random_split (line 45)
Permutations(s) == {Rotate(s, r) : r \in 0..MaxRot}

\* orders the shuffle of train_loader may produce (line 47)
Shuffles(s) == {s, Reverse(s)}

\* ------------------------------------------------------ split (42 to 45)
num_training(len) == (len * 6) \div 10

num_val(len) == len \div 10

num_test(len) == len - (num_training(len) + num_val(len))

\* variant: the third slice starts where the second one does
random_split_overlap(perm, lengths) ==
  [k \in 1..3 |->
     LET off == IF k = 1 THEN 0 ELSE lengths[1]
     IN SubSeq(perm, off + 1, off + lengths[k])]

random_split(perm, lengths) ==
  [k \in 1..3 |->
     LET off == IF k = 1 THEN 0
                ELSE IF k = 2 THEN lengths[1] ELSE lengths[1] + lengths[2]
     IN SubSeq(perm, off + 1, off + lengths[k])]

\* ------------------------------------------------ sklearn.metrics (87-90)
\* a PredictionRecord: [prob |-> class-1 probabilities, y |-> labels]
\* class-1 probabilities, in halves
Probs == 0..2

\* variant: a tie goes to class 1
argmax_ties_high(p1) == IF p1 >= 2 - p1 THEN 1 ELSE 0

\* numpy argmax over the row <<p0, p1>>: the first maximum
argmax(p1) == IF p1 > 2 - p1 THEN 1 ELSE 0

pred_y(batch) == [k \in 1..Len(batch.prob) |-> argmax(batch.prob[k])]

TP(yt, yp, c) == Count({k \in 1..Len(yt) : yt[k] = c /\ yp[k] = c})
FP(yt, yp, c) == Count({k \in 1..Len(yt) : yt[k] # c /\ yp[k] = c})
FN(yt, yp, c) == Count({k \in 1..Len(yt) : yt[k] = c /\ yp[k] # c})

accuracy_score(yt, yp) ==
  Frac(Count({k \in 1..Len(yt) : yt[k] = yp[k]}), Len(yt))

\* variant: zero_division=1
precision_score_default_one(yt, yp) ==
  IF TP(yt, yp, 1) + FP(yt, yp, 1) = 0 THEN One
  ELSE Frac(TP(yt, yp, 1), TP(yt, yp, 1) + FP(yt, yp, 1))

precision_score(yt, yp) ==
  IF TP(yt, yp, 1) + FP(yt, yp, 1) = 0 THEN Zero
  ELSE Frac(TP(yt, yp, 1), TP(yt, yp, 1) + FP(yt, yp, 1))

recall_score(yt, yp) ==
  IF TP(yt, yp, 1) + FN(yt, yp, 1) = 0 THEN Zero
  ELSE Frac(TP(yt, yp, 1), TP(yt, yp, 1) + FN(yt, yp, 1))

F1(yt, yp, c) ==
  IF 2 * TP(yt, yp, c) + FP(yt, yp, c) + FN(yt, yp, c) = 0 THEN Zero
  ELSE Frac(2 * TP(yt, yp, c),
            2 * TP(yt, yp, c) + FP(yt, yp, c) + FN(yt, yp, c))

f1_score(yt, yp) ==
  LET present == {c \in {0, 1} : \E k \in 1..Len(yt) : yt[k] = c \/ yp[k] = c}
  IN IF present = {0, 1} THEN RDivInt(RAdd(F1(yt, yp, 0), F1(yt, yp, 1)), 2)
     ELSE IF present = {0} THEN F1(yt, yp, 0)
     ELSE F1(yt, yp, 1)

\* ------------------------------------------------------- eval (76 to 92)
NoResult == [status |-> "none", accuracy |-> Zero, f1_macro |-> Zero,
             precision |-> Zero, recall |-> Zero]

ZeroDivisionError == [NoResult EXCEPT !.status = "ZeroDivisionError"]

\* the loop of lines 82 to 90 over the first k records
RECURSIVE eval_loop(_, _)
eval_loop(log, k) ==
  IF k = 0 THEN NoResult
  ELSE LET acc == eval_loop(log, k - 1)
           yt == log[k].y
           yp == pred_y(log[k])
       IN [acc EXCEPT !.accuracy = RAdd(@, accuracy_score(yt, yp)),
                      !.f1_macro = RAdd(@, f1_score(yt, yp)),
                      !.precision = RAdd(@, precision_score(yt, yp)),
                      !.recall = RAdd(@, recall_score(yt, yp))]

RECURSIVE Samples(_, _)
Samples(log, k) == IF k = 0 THEN 0 ELSE Samples(log, k - 1) + Len(log[k].y)

RECURSIVE Hits(_, _)
Hits(log, k) ==
  IF k = 0 THEN 0
  ELSE Hits(log, k - 1)
       + Count({s \in 1..Len(log[k].y) : log[k].y[s] = pred_y(log[k])[s]})

\* variant: the accuracy weights every batch by its size
eval_weighted(log) ==
  IF Len(log) = 0 THEN ZeroDivisionError
  ELSE LET acc == eval_loop(log, Len(log))
       IN [status |-> "ok",
           accuracy |-> Frac(Hits(log, Len(log)), Samples(log, Len(log))),
           f1_macro |-> RDivInt(acc.f1_macro, Len(log)),
           precision |-> RDivInt(acc.precision, Len(log)),
           recall |-> RDivInt(acc.recall, Len(log))]

eval(log) ==
  IF Len(log) = 0 THEN ZeroDivisionError
  ELSE LET acc == eval_loop(log, Len(log))
       IN [status |-> "ok",
           accuracy |-> RDivInt(acc.accuracy, Len(log)),
           f1_macro |-> RDivInt(acc.f1_macro, Len(log)),
           precision |-> RDivInt(acc.precision, Len(log)),
           recall |-> RDivInt(acc.recall, Len(log))]

\* ------------------------------------------------- the network (65 to 73)
labels_of(batch) == [k \in 1..Len(batch) |-> y[batch[k]]]

\* class-1 probabilities the network may return for a batch with labels yt
ModelOutputs(yt) ==
  { [k \in 1..Len(yt) |-> 0],
    [k \in 1..Len(yt) |-> 2],
    [k \in 1..Len(yt) |-> 2 * yt[k]] }

\* ------------------------------------------- state after lines 1 to 111
Labelings(len) ==
  { [s \in 1..len |-> IF s <= np THEN 1 ELSE 0] : np \in {0, len \div 2, len} }

Init ==
  /\ n \in 0..MaxDataset
  /\ epochs \in 0..MaxEpochs
  /\ batch_size \in {b \in (MaxBatchSize - 1)..MaxBatchSize : b >= 1}
  /\ y \in Labelings(n)
  /\ \E perm \in Permutations([s \in 1..n |-> s]) :
       LET parts == random_split(perm,
                      <<num_training(n), num_val(n), num_test(n)>>)
       IN /\ training_set = parts[1]
          /\ validation_set = parts[2]
          /\ test_set = parts[3]
  /\ pc = "main"
  /\ epoch = 0
  /\ train_iter = <<>>
  /\ i = 0
  /\ out_log = <<>>
  /\ loader = "none"
  /\ ct_iter = <<>>
  /\ j = 0
  /\ ct_log = <<>>
  /\ training = TRUE
  /\ grad_enabled = TRUE
  /\ params = 0
  /\ ret = NoResult
  /\ printed = <<>>

inputs == <<n, epochs, batch_size, y, training_set, validation_set, test_set>>

ct_vars == <<loader, ct_iter, j, ct_log>>

\* --------------------------------------------------- __main__ (114-141)
\* lines 116 to 119
Main_Begin ==
  /\ pc = "main"
  /\ out_log' = <<>>
  /\ training' = TRUE
  /\ epoch' = 0
  /\ pc' = "for_epoch"
  /\ UNCHANGED <<inputs, ct_vars, train_iter, i, grad_enabled, params, ret,
                 printed>>

\* lines 120 to 123: the next epoch starts and train_loader is reshuffled
ForEpoch_Enter ==
  /\ pc = "for_epoch"
  /\ epoch < epochs
  /\ \E order \in Shuffles(training_set) :
       train_iter' = DataLoader(order, batch_size)
  /\ i' = 0
  /\ pc' = "for_batch"
  /\ UNCHANGED <<inputs, ct_vars, epoch, out_log, training, grad_enabled,
                 params, ret, printed>>

\* line 120 exhausted: on to line 139
ForEpoch_Exit ==
  /\ pc = "for_epoch"
  /\ epoch >= epochs
  /\ pc' = "call_test"
  /\ UNCHANGED <<inputs, ct_vars, epoch, train_iter, i, out_log, training,
                 grad_enabled, params, ret, printed>>

\* lines 123 to 132: one training batch
TrainBatch ==
  /\ pc = "for_batch"
  /\ i < Len(train_iter)
  /\ LET yt == labels_of(train_iter[i + 1])
     IN \E out \in ModelOutputs(yt) :
          out_log' = Append(out_log, [prob |-> out, y |-> yt])
  /\ params' = params + 1
  /\ i' = i + 1
  /\ UNCHANGED <<inputs, ct_vars, pc, epoch, train_iter, training,
                 grad_enabled, ret, printed>>

\* line 133
TrainEval ==
  /\ pc = "for_batch"
  /\ i = Len(train_iter)
  /\ ret' = eval(out_log)
  /\ pc' = IF ret'.status = "ok" THEN "call_val" ELSE "failed"
  /\ UNCHANGED <<inputs, ct_vars, epoch, train_iter, i, out_log, training,
                 grad_enabled, params, printed>>

\* ---------------------------------------------- compute_test (95 to 106)
\* lines 96 to 99, called from line 134 or line 139
compute_test_Enter ==
  /\ pc \in {"call_val", "call_test"}
  /\ loader' = IF pc = "call_val" THEN "val" ELSE "test"
  /\ ct_iter' = DataLoader(IF pc = "call_val" THEN validation_set
                           ELSE test_set, batch_size)
  /\ training' = FALSE
  /\ grad_enabled' = FALSE
  /\ ct_log' = <<>>
  /\ j' = 0
  /\ pc' = "ct_batch"
  /\ UNCHANGED <<inputs, epoch, train_iter, i, out_log, params, ret, printed>>

\* variant: the inference batch also applies an optimizer step
compute_test_Batch_steps ==
  /\ pc = "ct_batch"
  /\ j < Len(ct_iter)
  /\ LET yt == labels_of(ct_iter[j + 1])
     IN \E out \in ModelOutputs(yt) :
          ct_log' = Append(ct_log, [prob |-> out, y |-> yt])
  /\ j' = j + 1
  /\ params' = params + 1
  /\ UNCHANGED <<inputs, pc, epoch, train_iter, i, out_log, loader, ct_iter,
                 training, grad_enabled, ret, printed>>

\* lines 100 to 105: one inference batch
compute_test_Batch ==
  /\ pc = "ct_batch"
  /\ j < Len(ct_iter)
  /\ LET yt == labels_of(ct_iter[j + 1])
     IN \E out \in ModelOutputs(yt) :
          ct_log' = Append(ct_log, [prob |-> out, y |-> yt])
  /\ j' = j + 1
  /\ UNCHANGED <<inputs, pc, epoch, train_iter, i, out_log, loader, ct_iter,
                 training, grad_enabled, params, ret, printed>>

\* line 106: the no_grad block is left, eval runs, control returns
compute_test_Return ==
  /\ pc = "ct_batch"
  /\ j = Len(ct_iter)
  /\ grad_enabled' = TRUE
  /\ ret' = eval(ct_log)
  /\ pc' = IF ret'.status # "ok" THEN "failed"
           ELSE IF loader = "val" THEN "print_epoch" ELSE "print_test"
  /\ loader' = "none"
  /\ UNCHANGED <<inputs, epoch, train_iter, i, out_log, ct_iter, j, ct_log,
                 training, params, printed>>

\* lines 135 to 137, then back to line 120
Print_Epoch ==
  /\ pc = "print_epoch"
  /\ printed' = Append(printed, "epoch")
  /\ epoch' = epoch + 1
  /\ pc' = "for_epoch"
  /\ UNCHANGED <<inputs, ct_vars, train_iter, i, out_log, training,
                 grad_enabled, params, ret>>

\* lines 140 to 141
Print_Test ==
  /\ pc = "print_test"
  /\ printed' = Append(printed, "test")
  /\ pc' = "done"
  /\ UNCHANGED <<inputs, ct_vars, epoch, train_iter, i, out_log, training,
                 grad_enabled, params, ret>>

Next ==
  \/ Main_Begin
  \/ ForEpoch_Enter
  \/ ForEpoch_Exit
  \/ TrainBatch
  \/ TrainEval
  \/ compute_test_Enter
  \/ compute_test_Batch
  \/ compute_test_Return
  \/ Print_Epoch
  \/ Print_Test

Spec == Init /\ [][Next]_vars

\* ------------------------------------------- eval on its own (76 to 92)
\* every record of m samples
Batches(m) == [prob : [1..m -> Probs], y : [1..m -> {0, 1}]]

EvalInit ==
  /\ out_log = <<>>
  /\ pc = "eval_call"
  /\ n = 0
  /\ epochs = 0
  /\ batch_size = 1
  /\ y = <<>>
  /\ training_set = <<>>
  /\ validation_set = <<>>
  /\ test_set = <<>>
  /\ epoch = 0
  /\ train_iter = <<>>
  /\ i = 0
  /\ loader = "none"
  /\ ct_iter = <<>>
  /\ j = 0
  /\ ct_log = <<>>
  /\ training = TRUE
  /\ grad_enabled = TRUE
  /\ params = 0
  /\ ret = NoResult
  /\ printed = <<>>

\* the caller appends one record, as lines 104 and 132 do
Eval_Append ==
  /\ pc = "eval_call"
  /\ \E m \in 1..(MaxSamples - Samples(out_log, Len(out_log))) :
       \E b \in Batches(m) : out_log' = Append(out_log, b)
  /\ UNCHANGED <<inputs, ct_vars, pc, epoch, train_iter, i, training,
                 grad_enabled, params, ret, printed>>

\* one call eval(out_log)
Eval_Call ==
  /\ pc = "eval_call"
  /\ ret' = eval(out_log)
  /\ pc' = "eval_done"
  /\ UNCHANGED <<inputs, ct_vars, epoch, train_iter, i, out_log, training,
                 grad_enabled, params, printed>>

EvalNext == Eval_Append \/ Eval_Call

EvalSpec == EvalInit /\ [][EvalNext]_vars

\* ===================================================== claims: the driver
Range(s) == {s[k] : k \in 1..Len(s)}

NumTrainBatches == (Len(training_set) + batch_size - 1) \div batch_size

EpochLines(k) == [m \in 1..k |-> "epoch"]

\* C1: for every epoch count N the driver goes initializing, N times
\* (training-epoch, validating), testing, done: it never aborts on the way,
\* a validation pass starts only after all training batches of its epoch,
\* the test pass starts only after the N-th validation pass, and at done
\* exactly N epoch lines followed by one test line have been printed.
C1_PhaseOrder ==
  /\ pc # "failed"
  /\ pc \in {"call_val", "print_epoch"} \/ loader = "val"
       => i = Len(train_iter) /\ epoch < epochs /\ printed = EpochLines(epoch)
  /\ pc \in {"call_test", "print_test"} \/ loader = "test"
       => epoch = epochs /\ printed = EpochLines(epochs)
  /\ pc = "done" => printed = Append(EpochLines(epochs), "test")

\* C2: the records handed to eval at the end of a training pass are exactly
\* the records of that pass's batches, one per batch, none from earlier epochs.
C2_PassLocalRecords ==
  (pc = "for_batch" /\ i = Len(train_iter))
    => /\ Len(out_log) = Len(train_iter)
       /\ \A b \in 1..Len(train_iter) : out_log[b].y = labels_of(train_iter[b])

\* C3: when compute_test returns from a validation pass and another training
\* epoch follows, the model is in training mode again.
C3_TrainModeRestored ==
  [][(pc = "ct_batch" /\ pc' = "print_epoch" /\ epoch + 1 < epochs)
       => training']_vars

\* C4: whenever a training batch is about to run its forward computation, in
\* any epoch, the model is in training mode and gradients are tracked.
C4_DropoutActiveInTraining ==
  (pc = "for_batch" /\ i < Len(train_iter)) => (training /\ grad_enabled)

\* C5: the parameters change only in a training-batch step, an inference pass
\* leaves them as they were, and they are never reset: in epoch k (from 0),
\* after i batches, they have been stepped k * (batches per epoch) + i times.
C5_ParamsOnlyTrainStep ==
  /\ [](pc = "for_batch" => params = epoch * NumTrainBatches + i)
  /\ [][/\ params' # params
             => (pc = "for_batch" /\ i' = i + 1 /\ params' = params + 1)
        /\ (pc \in {"call_val", "call_test", "ct_batch"} \/ loader # "none")
             => params' = params]_vars

\* a validation pass of the second or a later epoch has just run its batches
C5_Witness ==
  /\ pc = "print_epoch"
  /\ epoch >= 1
  /\ Len(ct_log) >= 1
  /\ params = (epoch + 1) * NumTrainBatches
  /\ NumTrainBatches >= 2

\* C8: the partition sizes are floor(0.6 n), floor(0.1 n) and the rest, they
\* add up to n, the partitions are pairwise disjoint and cover the dataset,
\* and they never change; only the training batch order varies.
SplitOK ==
  /\ Len(training_set) = (6 * n) \div 10
  /\ Len(validation_set) = n \div 10
  /\ Len(test_set) = n - Len(training_set) - Len(validation_set)
  /\ Len(test_set) >= 0
  /\ Len(training_set) + Len(validation_set) + Len(test_set) = n
  /\ Range(training_set) \cap Range(validation_set) = {}
  /\ Range(training_set) \cap Range(test_set) = {}
  /\ Range(validation_set) \cap Range(test_set) = {}
  /\ Range(training_set) \cup Range(validation_set) \cup Range(test_set) = 1..n
  /\ Cardinality(Range(training_set)) = Len(training_set)
  /\ Cardinality(Range(validation_set)) = Len(validation_set)
  /\ Cardinality(Range(test_set)) = Len(test_set)

BatchesCover(iter, part) ==
  /\ UNION {Range(iter[b]) : b \in 1..Len(iter)} = Range(part)
  /\ \A b, c \in 1..Len(iter) : b # c => Range(iter[b]) \cap Range(iter[c]) = {}

C8_PartitionsFixed ==
  /\ [](SplitOK /\ (pc = "for_batch" => BatchesCover(train_iter, training_set))
               /\ (loader = "val" => BatchesCover(ct_iter, validation_set))
               /\ (loader = "test" => BatchesCover(ct_iter, test_set)))
  /\ [][UNCHANGED <<training_set, validation_set, test_set>>]_vars

\* a run over three non-empty partitions has finished two or more epochs
C8_Witness ==
  /\ pc = "done"
  /\ epochs >= 2
  /\ Len(validation_set) >= 1
  /\ training_set # [k \in 1..Len(training_set) |-> k]

\* ========================================================= claims: eval
Called == pc = "eval_done"

Correct(b) == \A s \in 1..Len(b.y) : (b.prob[s] = 2) <=> (b.y[s] = 1)

AllCorrect(log) == \A k \in 1..Len(log) : Correct(log[k])

HasPositive(b) == \E s \in 1..Len(b.y) : b.y[s] = 1

PredictsPositive(b) == \E s \in 1..Len(b.y) : b.prob[s] = 2

RECURSIVE RSum(_)
RSum(qs) == IF qs = <<>> THEN Zero ELSE RAdd(Head(qs), RSum(Tail(qs)))

\* r * k = total, for rationals r and total
IsMean(r, total, k) == r[1] * total[2] * k = total[1] * r[2]

\* C6: for any sequence of records, the empty one included, eval returns four
\* averages in [0, 1] and does not fail.
C6_AveragesInUnit ==
  Called => /\ ret.status = "ok"
            /\ InUnit(ret.accuracy)
            /\ InUnit(ret.f1_macro)
            /\ InUnit(ret.precision)
            /\ InUnit(ret.recall)

\* C7 as stated: if every record of a pass predicts every label, accuracy and
\* recall are 1, and precision is 1, or 0 only if no batch has a positive.
C7_PerfectIsOne ==
  (Called /\ Len(out_log) > 0 /\ AllCorrect(out_log))
    => /\ ret.accuracy = One
       /\ ret.recall = One
       /\ \/ ret.precision = One
          \/ /\ ret.precision = Zero
             /\ \A k \in 1..Len(out_log) : ~HasPositive(out_log[k])

\* C7 amended: if every record of a pass of one or more batches predicts every
\* label, accuracy is 1, and precision and recall both equal the fraction of
\* the batches that hold a positive-class sample.
C7_PerfectAmended ==
  (Called /\ Len(out_log) > 0 /\ AllCorrect(out_log))
    => LET withPos == Cardinality({k \in 1..Len(out_log) :
                                     HasPositive(out_log[k])})
       IN /\ ret.status = "ok"
          /\ ret.accuracy = One
          /\ ret.recall = Frac(withPos, Len(out_log))
          /\ ret.precision = Frac(withPos, Len(out_log))

\* a perfect pass in which one batch has a positive and another has none
C7_Witness ==
  /\ Called
  /\ AllCorrect(out_log)
  /\ \E k, m \in 1..Len(out_log) :
       HasPositive(out_log[k]) /\ ~HasPositive(out_log[m])
  /\ ret.recall = <<1, 2>>

\* C9: for a batch whose labels are all negative, precision and recall are 0
\* whatever the predictions, and nothing fails: a pass made of such batches
\* returns precision 0 and recall 0.
C9_ZeroDivisionGuard ==
  Called
    => /\ \A k \in 1..Len(out_log) :
            ~HasPositive(out_log[k])
              => /\ precision_score(out_log[k].y, pred_y(out_log[k])) = Zero
                 /\ recall_score(out_log[k].y, pred_y(out_log[k])) = Zero
       /\ (Len(out_log) > 0 /\ \A k \in 1..Len(out_log) : ~HasPositive(out_log[k]))
            => (ret.status = "ok" /\ ret.precision = Zero /\ ret.recall = Zero)

\* an all-negative batch with mixed predictions, and one with none positive
C9_Witness ==
  /\ Called
  /\ Len(out_log) = 2
  /\ \A k \in 1..2 : ~HasPositive(out_log[k])
  /\ PredictsPositive(out_log[1])
  /\ \E s \in 1..Len(out_log[1].y) : out_log[1].prob[s] < 2
  /\ ~PredictsPositive(out_log[2])
  /\ ret.status = "ok"

PooledAccuracy(log) ==
  Frac(Cardinality({ks \in {<<k, s>> : k \in 1..Len(log), s \in 1..MaxSamples + 1} :
                      /\ ks[2] <= Len(log[ks[1]].y)
                      /\ log[ks[1]].y[ks[2]] = pred_y(log[ks[1]])[ks[2]]}),
       Samples(log, Len(log)))

SameSize(log) == \A k, m \in 1..Len(log) : Len(log[k].y) = Len(log[m].y)

\* C10: for a non-empty pass each returned value is the sum of the per-batch
\* values divided by the number of batches, and the returned accuracy equals
\* the accuracy over the pooled samples whenever all batches have one size.
C10_MeanOfBatchMeans ==
  (Called /\ Len(out_log) > 0)
    => LET per(f(_, _)) == [k \in 1..Len(out_log) |->
                              f(out_log[k].y, pred_y(out_log[k]))]
       IN /\ IsMean(ret.accuracy, RSum(per(accuracy_score)), Len(out_log))
          /\ IsMean(ret.f1_macro, RSum(per(f1_score)), Len(out_log))
          /\ IsMean(ret.precision, RSum(per(precision_score)), Len(out_log))
          /\ IsMean(ret.recall, RSum(per(recall_score)), Len(out_log))
          /\ SameSize(out_log) => ret.accuracy = PooledAccuracy(out_log)

\* batches of unequal size whose mean accuracy is not the pooled accuracy
C10_Witness ==
  /\ Called
  /\ Len(out_log) = 2
  /\ ~SameSize(out_log)
  /\ ret.accuracy # PooledAccuracy(out_log)

====
